---- MODULE Spec2Model ----
(***************************************************************************)
(* The TicTacToe client (src/client/UI.py) and its serial transport        *)
(* (src/client/esp32_communication.py) as a state machine.                 *)
(*                                                                         *)
(* The variables are the fields of the TicTacToe object, the state of its  *)
(* Tk widgets, the state of the serial port, and the position of the one   *)
(* thread of control (pc): start_game and make_move write a request and    *)
(* then block in receive_message, and the model shows that blocked         *)
(* position, with the request in flight, as a state of its own.  No other  *)
(* method runs while one is blocked.                                       *)
(*                                                                         *)
(* Spec is the class at the level of its methods, the level the unit tests *)
(* of src/client/tests.py call it at: start_game, make_move, the response  *)
(* dispatcher handle_response and the bot tick process_bot_move may be     *)
(* called whenever the board widgets exist.  SpecLocal is one run of the   *)
(* program in which only the widgets Tk lets the user press are pressed.   *)
(*                                                                         *)
(* The text of info_label is presentation only and is left out.            *)
(***************************************************************************)
EXTENDS Integers, Sequences, FiniteSets, TLC

VARIABLES
  board,           \* self.board: 3x3 list of " ", "X", "O"
  current_player,  \* self.current_player
  gameover,        \* self.gameover: "None", "False", "True"
  game_result,     \* self.game_result: "None", " ", "Player X won", ...
  game_mode,       \* self.game_mode: "None", "pvp", "pvbot", "botvbot"
  buttons,         \* state of the nine cell buttons
  back_button,     \* state of the Back to Menu button
  tick,            \* TRUE while root.after holds a pending process_bot_move
  ser,             \* esp.ser: "None" or "open"
  pc,              \* "idle", or the method blocked in receive_message
  last,            \* what the last step did: method, arguments, traffic
  hist,            \* this session's local moves, counted
  rd,              \* one esp32 object seen from inside: its calls, line by line
  file             \* game_state.xml: the document save_game wrote last

vars == <<board, current_player, gameover, game_result, game_mode,
          buttons, back_button, tick, ser, pc, last, hist, rd, file>>

----------------------------------------------------------------------------
(* Bounds of the model. *)

\* Moves, local and remote, go to the first MaxCells cells of the board in
\* row-major order; the other cells stay Empty.
MaxCells == 2

\* The board is Size x Size.
Size == 3

Idx == 0 .. (Size - 1)

Cells == Idx \X Idx

EmptyBoard == [r \in Idx |-> [c \in Idx |-> " "]]

Marks(b) == Cardinality({cell \in Cells : b[cell[1]][cell[2]] # " "})

PlayCells == {cell \in Cells : cell[1] * Size + cell[2] < MaxCells}

----------------------------------------------------------------------------
(* Frames: what receive_message hands to the dispatcher.  A frame is either *)
(* text that is no XML document (wf = FALSE: the transport's own error     *)
(* strings included) or a document with a root tag, a type attribute and   *)
(* the child elements the handlers look for.  "-" stands for an absent     *)
(* element or attribute; x and y are attribute strings, as on the wire.    *)

Absent == "-"

Frame(wf, tag, type, status, x, y, mode) ==
  [wf |-> wf, tag |-> tag, type |-> type, status |-> status,
   x |-> x, y |-> y, mode |-> mode]

NotConnectedText == "Port not opened or connection lost."

TextFrame(t) == Frame(FALSE, t, Absent, Absent, Absent, Absent, Absent)

MoveFrame(status, x, y) == Frame(TRUE, "response", "move", status, x, y, Absent)

GameOverFrame(status) ==
  Frame(TRUE, "response", "gameover", status, Absent, Absent, Absent)

ModeFrame(mode) == Frame(TRUE, "response", "mode", Absent, Absent, Absent, mode)

ErrorFrame == Frame(TRUE, "response", "error", Absent, Absent, Absent, Absent)

UnknownFrame == Frame(TRUE, "response", "hello", Absent, Absent, Absent, Absent)

WrongRootFrame == Frame(TRUE, "request", "move", "Continue", "0", "0", Absent)

NoFrame == TextFrame("")

Digit(n) == CASE n = 0 -> "0" [] n = 1 -> "1" [] OTHER -> "2"

Statuses == {"Continue", "X", "O", "Draw"}

ModeNames == {"pvp", "pvbot", "botvbot"}

\* Move responses whose fields are all present and in range.
GoodMoveFrames ==
  {MoveFrame(s, Digit(cell[1]), Digit(cell[2])) : s \in Statuses, cell \in PlayCells}

\* Move responses with a missing or malformed field.
BadMoveFrames ==
  { MoveFrame(Absent, "0", "0"), MoveFrame("Continue", Absent, Absent),
    MoveFrame("Continue", "a", "0"), MoveFrame("Continue", "3", "0"),
    MoveFrame("X", "0", "3") }

GameOverFrames == {GameOverFrame(s) : s \in Statuses \cup {Absent}}

ModeFrames == {ModeFrame(m) : m \in ModeNames \cup {Absent}}

TextFrames == {TextFrame("not xml"), TextFrame("Error: read failed.")}

\* Everything an open port can deliver.
PeerFrames ==
  GoodMoveFrames \cup BadMoveFrames \cup GameOverFrames \cup ModeFrames
    \cup TextFrames \cup {ErrorFrame, UnknownFrame, WrongRootFrame}

\* int(s): the value of a decimal attribute, or -1 when int() raises.
ToInt(s) ==
  CASE s = "0" -> 0 [] s = "1" -> 1 [] s = "2" -> 2 [] s = "3" -> 3
    [] OTHER -> -1

IsInt(s) == s \in {"0", "1", "2", "3"}

----------------------------------------------------------------------------
(* The object's mutable state as one record g, so that each method is an   *)
(* operator from g to g.  Besides the fields of the object, g carries what *)
(* the call has done so far: raised is "none" while it runs normally and   *)
(* "ParseError" or "Error" once an exception of that kind is propagating;  *)
(* recvs counts the calls of esp.receive_message; calls lists the handlers *)
(* entered; target tells whether the cell a move frame names was "empty"   *)
(* or "occupied"; toggled tells whether make_move has called               *)
(* change_player itself.                                                   *)

Opp(p) == IF p = "X" THEN "O" ELSE "X"

Raise(g, kind) == [g EXCEPT !.raised = kind]

Enter(g, name) == [g EXCEPT !.calls = Append(@, name)]

change_player(g) == [g EXCEPT !.current_player = Opp(@)]

disable_all_buttons(g) ==
  [g EXCEPT !.buttons = [r \in Idx |-> [c \in Idx |-> "disabled"]]]

PlayerWon(status) == IF status = "X" THEN "Player X won" ELSE "Player O won"

game_over_no_freeze(g0, f) ==
  LET g == Enter(g0, "game_over")
  IN IF f.status = Absent THEN Raise(g, "Error")
     ELSE IF f.status \in {"X", "O"}
       THEN [g EXCEPT !.gameover = "True", !.game_result = PlayerWon(f.status)]
     ELSE IF f.status = "Draw"
       THEN [g EXCEPT !.gameover = "True", !.game_result = "Draw"]
     ELSE g

game_over_any_status(g0, f) ==
  LET g == Enter(g0, "game_over")
  IN IF f.status = Absent THEN Raise(g, "Error")
     ELSE IF f.status \in {"X", "O"}
       THEN disable_all_buttons(
              [g EXCEPT !.gameover = "True", !.game_result = PlayerWon(f.status)])
     ELSE disable_all_buttons(
            [g EXCEPT !.gameover = "True", !.game_result = "Draw"])

game_over(g0, f) ==
  LET g == Enter(g0, "game_over")
  IN IF f.status = Absent THEN Raise(g, "Error")
     ELSE IF f.status \in {"X", "O"}
       THEN disable_all_buttons(
              [g EXCEPT !.gameover = "True", !.game_result = PlayerWon(f.status)])
     ELSE IF f.status = "Draw"
       THEN disable_all_buttons(
              [g EXCEPT !.gameover = "True", !.game_result = "Draw"])
     ELSE g

\* The lines of handle_move and process_bot_move that read status, x and y:
\* TRUE when one of them raises (no element, no attribute, int() fails, or
\* the index is off the board).
FieldsRaise(f) ==
  \/ f.status = Absent
  \/ ~IsInt(f.x) \/ ~IsInt(f.y)
  \/ ToInt(f.x) \notin Idx \/ ToInt(f.y) \notin Idx

\* board[x][y] = current_player, and the cell's button disabled.
Place(g, x, y) ==
  [g EXCEPT !.board[x][y] = g.current_player, !.buttons[x][y] = "disabled"]

Target(g, x, y) ==
  [g EXCEPT !.target = IF g.board[x][y] = " " THEN "empty" ELSE "occupied"]

handle_move_place_first(g0, f) ==
  LET g == Enter(g0, "handle_move")
  IN IF FieldsRaise(f) THEN Raise(g, "Error")
     ELSE LET x == ToInt(f.x)
              y == ToInt(f.y)
              g1 == IF g.board[x][y] = " "
                      THEN change_player(Place(Target(g, x, y), x, y))
                      ELSE Target(g, x, y)
          IN IF f.status # "Continue" THEN game_over(g1, f) ELSE g1

handle_move_no_toggle(g0, f) ==
  LET g == Enter(g0, "handle_move")
  IN IF FieldsRaise(f) THEN Raise(g, "Error")
     ELSE LET x == ToInt(f.x)
              y == ToInt(f.y)
              g1 == IF g.board[x][y] = " "
                      THEN Place(Target(g, x, y), x, y)
                      ELSE Target(g, x, y)
          IN IF f.status # "Continue" THEN game_over(g1, f) ELSE g1

handle_move_return_if_occupied(g0, f) ==
  LET g == Enter(g0, "handle_move")
  IN IF FieldsRaise(f) THEN Raise(g, "Error")
     ELSE LET x == ToInt(f.x)
              y == ToInt(f.y)
          IN IF g.board[x][y] # " " THEN Target(g, x, y)
             ELSE LET g1 == Place(change_player(Target(g, x, y)), x, y)
                  IN IF f.status # "Continue" THEN game_over(g1, f) ELSE g1

handle_move_always_toggles(g0, f) ==
  LET g == Enter(g0, "handle_move")
  IN IF FieldsRaise(f) THEN Raise(g, "Error")
     ELSE LET x == ToInt(f.x)
              y == ToInt(f.y)
              g1 == IF g.board[x][y] = " "
                      THEN Place(change_player(Target(g, x, y)), x, y)
                      ELSE change_player(Target(g, x, y))
          IN IF f.status # "Continue" THEN game_over(g1, f) ELSE g1

handle_move(g0, f) ==
  LET g == Enter(g0, "handle_move")
  IN IF FieldsRaise(f) THEN Raise(g, "Error")
     ELSE LET x == ToInt(f.x)
              y == ToInt(f.y)
              g1 == IF g.board[x][y] = " "
                      THEN Place(change_player(Target(g, x, y)), x, y)
                      ELSE Target(g, x, y)
          IN IF f.status # "Continue" THEN game_over(g1, f) ELSE g1

\* f is the frame this call's receive_message returns.
process_bot_move_always_reschedules(g0, f) ==
  LET g == [Enter(g0, "process_bot_move") EXCEPT !.recvs = @ + 1]
  IN IF ~f.wf THEN Raise(g, "ParseError")
     ELSE IF FieldsRaise(f) THEN Raise(g, "Error")
     ELSE LET x == ToInt(f.x)
              y == ToInt(f.y)
              g1 == IF g.board[x][y] = " "
                      THEN change_player(Place(Target(g, x, y), x, y))
                      ELSE Target(g, x, y)
          IN IF f.status # "Continue"
               THEN [game_over(g1, f) EXCEPT !.back_button = "active",
                                             !.tick = TRUE]
               ELSE [g1 EXCEPT !.tick = TRUE]

process_bot_move(g0, f) ==
  LET g == [Enter(g0, "process_bot_move") EXCEPT !.recvs = @ + 1]
  IN IF ~f.wf THEN Raise(g, "ParseError")
     ELSE IF FieldsRaise(f) THEN Raise(g, "Error")
     ELSE LET x == ToInt(f.x)
              y == ToInt(f.y)
              g1 == IF g.board[x][y] = " "
                      THEN change_player(Place(Target(g, x, y), x, y))
                      ELSE Target(g, x, y)
          IN IF f.status # "Continue"
               THEN [game_over(g1, f) EXCEPT !.back_button = "active"]
               ELSE [g1 EXCEPT !.tick = TRUE]

handle_bot_v_bot_back_enabled(g0, f2) ==
  LET g == Enter(g0, "handle_bot_v_bot")
  IN process_bot_move(disable_all_buttons(g), f2)

handle_bot_v_bot(g0, f2) ==
  LET g == Enter(g0, "handle_bot_v_bot")
  IN process_bot_move(
       [disable_all_buttons(g) EXCEPT !.back_button = "disabled"], f2)

handle_response_any_mode(g, f, f2) ==
  IF ~f.wf THEN g
  ELSE IF f.tag # "response" THEN g
  ELSE IF f.type = "mode"
    THEN IF f.mode = Absent THEN Raise(g, "Error")
         ELSE LET r == handle_bot_v_bot(g, f2)
              IN IF r.raised = "ParseError" THEN [r EXCEPT !.raised = "none"]
                 ELSE r
  ELSE IF f.type = "move" THEN handle_move(g, f)
  ELSE IF f.type = "gameover" THEN game_over(g, f)
  ELSE g

handle_response_gameover_as_move(g, f, f2) ==
  IF ~f.wf THEN g
  ELSE IF f.tag # "response" THEN g
  ELSE IF f.type = "mode"
    THEN IF f.mode = Absent THEN Raise(g, "Error")
         ELSE IF f.mode = "botvbot"
           THEN LET r == handle_bot_v_bot(g, f2)
                IN IF r.raised = "ParseError" THEN [r EXCEPT !.raised = "none"]
                   ELSE r
         ELSE g
  ELSE IF f.type \in {"move", "gameover"} THEN handle_move(g, f)
  ELSE g

handle_response_any_root(g, f, f2) ==
  IF ~f.wf THEN g
  ELSE IF f.type = "mode"
    THEN IF f.mode = Absent THEN Raise(g, "Error")
         ELSE IF f.mode = "botvbot"
           THEN LET r == handle_bot_v_bot(g, f2)
                IN IF r.raised = "ParseError" THEN [r EXCEPT !.raised = "none"]
                   ELSE r
         ELSE g
  ELSE IF f.type = "move" THEN handle_move(g, f)
  ELSE IF f.type = "gameover" THEN game_over(g, f)
  ELSE g

\* f is the response; f2 is the frame the bot loop's first receive returns
\* when f makes the dispatcher enter the loop.  The try block of
\* handle_response catches ET.ParseError only, from the loop's first
\* process_bot_move too.
handle_response(g, f, f2) ==
  IF ~f.wf THEN g
  ELSE IF f.tag # "response" THEN g
  ELSE IF f.type = "mode"
    THEN IF f.mode = Absent THEN Raise(g, "Error")
         ELSE IF f.mode = "botvbot"
           THEN LET r == handle_bot_v_bot(g, f2)
                IN IF r.raised = "ParseError" THEN [r EXCEPT !.raised = "none"]
                   ELSE r
         ELSE g
  ELSE IF f.type = "move" THEN handle_move(g, f)
  ELSE IF f.type = "gameover" THEN game_over(g, f)
  ELSE g

create_board_all_enabled(g) ==
  [g EXCEPT !.buttons = [r \in Idx |-> [c \in Idx |-> "normal"]],
            !.back_button = "normal"]

create_board(g) ==
  [g EXCEPT !.buttons = [r \in Idx |-> [c \in Idx |->
                           IF g.board[r][c] # " " THEN "disabled" ELSE "normal"]],
            !.back_button = "normal"]

make_move_reply_always_toggle(g, f, f2) ==
  LET r == handle_response([g EXCEPT !.recvs = @ + 1], f, f2)
  IN [change_player(r) EXCEPT !.toggled = TRUE]

\* make_move from the return of receive_message on: the dispatch, then the
\* conditional change_player.
make_move_reply(g, f, f2) ==
  LET r == handle_response([g EXCEPT !.recvs = @ + 1], f, f2)
  IN IF r.raised # "none" THEN r
     ELSE IF r.gameover # "True" THEN [change_player(r) EXCEPT !.toggled = TRUE]
     ELSE r

\* start_game from the return of receive_message on.
start_game_reply(g, f, f2) ==
  handle_response(create_board([g EXCEPT !.recvs = @ + 1]), f, f2)

----------------------------------------------------------------------------
(* game_state.xml.  A document is the set of the child elements of its      *)
(* root, the text of the three Row elements, and the text of CurrentPlayer, *)
(* GameResult and GameMode; "None" is the text of an element written from   *)
(* None.  A row's text is a sequence of characters.                         *)

Elements == {"Board", "CurrentPlayer", "GameResult", "GameMode"}

\* No game_state.xml in the working directory.
NoFile ==
  [state |-> "missing", els |-> {}, rows |-> <<>>, player |-> "None",
   result |-> "None", mode |-> "None"]

\* A game_state.xml that ET.parse rejects.
UnparsableFile == [NoFile EXCEPT !.state = "unparsable"]

\* ",".join(row)
comma_join(row) ==
  [i \in 1 .. (2 * Size - 1) |-> IF i % 2 = 1 THEN row[(i - 1) \div 2] ELSE ","]

\* text.split(","): the pieces of text between its commas.
RECURSIVE comma_split(_)
comma_split(text) ==
  IF \A i \in 1 .. Len(text) : text[i] # "," THEN <<text>>
  ELSE LET k == CHOOSE i \in 1 .. Len(text) :
                  text[i] = "," /\ \A j \in 1 .. (i - 1) : text[j] # ","
       IN <<SubSeq(text, 1, k - 1)>> \o comma_split(SubSeq(text, k + 1, Len(text)))

\* A piece of one character is that character; board cells are compared
\* with " ", so every other piece counts as a mark.
Piece(p) == IF Len(p) = 1 THEN p[1] ELSE "other"

\* [row.text.split(",") for row in board_element.findall("Row")]
BoardOf(rows) ==
  [r \in Idx |-> [c \in Idx |-> Piece(comma_split(rows[r + 1])[c + 1])]]

\* The document save_game writes.
save_game(g) ==
  [state |-> "doc", els |-> Elements,
   rows |-> [i \in 1 .. Size |-> comma_join(g.board[i - 1])],
   player |-> g.current_player, result |-> g.game_result,
   mode |-> g.game_mode]

\* load_game: the two except clauses catch a missing and an unparsable
\* file; find() of an absent element returns None, and the attribute access
\* on it raises past them.
load_game(g0, doc) ==
  LET g == Enter(g0, "load_game")
  IN IF doc.state # "doc" THEN g
     ELSE IF "Board" \notin doc.els THEN Raise(g, "Error")
     ELSE LET g1 == [g EXCEPT !.board = BoardOf(doc.rows)]
          IN IF "CurrentPlayer" \notin doc.els THEN Raise(g1, "Error")
             ELSE LET g2 == [g1 EXCEPT !.current_player = doc.player]
                  IN IF "GameMode" \notin doc.els THEN Raise(g2, "Error")
                     ELSE LET g3 == create_board([g2 EXCEPT !.game_mode = doc.mode])
                          IN IF "GameResult" \notin doc.els THEN Raise(g3, "Error")
                             ELSE IF doc.result # " "
                               THEN disable_all_buttons(g3)
                               ELSE g3

\* back_to_menu up to save_game: every widget of the root window destroyed.
destroy_widgets(g) ==
  [g EXCEPT !.buttons = [r \in Idx |-> [c \in Idx |-> "none"]],
            !.back_button = "none"]

----------------------------------------------------------------------------
(* Requests, and esp.send_message: the bytes written to the port. *)

ModeRequest_no_newline(mode) ==
  [type |-> "mode", name |-> mode, x |-> -1, y |-> -1, newlines |-> 0]

\* xml_data + b'\n': one request envelope and one newline after it.
ModeRequest(mode) ==
  [type |-> "mode", name |-> mode, x |-> -1, y |-> -1, newlines |-> 1]

MoveRequest(player, row, col) ==
  [type |-> "move", name |-> player, x |-> row, y |-> col, newlines |-> 1]

send_message(port, message) == IF port = "open" THEN <<message>> ELSE <<>>

\* What one receive_message call can return.
Incoming(port) ==
  IF port = "open" THEN PeerFrames ELSE {TextFrame(NotConnectedText)}

\* The branch of handle_response that the frame f takes.
Branch(f) ==
  IF ~f.wf THEN "ParseError"
  ELSE IF f.tag # "response" THEN "tag"
  ELSE IF f.type = "mode"
    THEN IF f.mode = "botvbot" THEN "mode botvbot" ELSE "mode"
  ELSE IF f.type \in {"move", "gameover", "error"} THEN f.type
  ELSE "none"

EntersBotLoop(f) ==
  f.wf /\ f.tag = "response" /\ f.type = "mode" /\ f.mode = "botvbot"

Second(port, f) == IF EntersBotLoop(f) THEN Incoming(port) ELSE {NoFrame}

----------------------------------------------------------------------------
(* The state machine. *)

\* The esp32 object between calls: nothing buffered, read, written or
\* returned.
NoCall ==
  [pc |-> "idle", buf |-> <<>>, frame |-> <<>>, line |-> <<>>, lines |-> <<>>,
   response_data |-> <<>>, reads |-> 0, result |-> [kind |-> "none", text |-> <<>>],
   written |-> <<>>, status |-> "none"]

Self ==
  [board |-> board, current_player |-> current_player, gameover |-> gameover,
   game_result |-> game_result, game_mode |-> game_mode, buttons |-> buttons,
   back_button |-> back_button, tick |-> tick, raised |-> "none", recvs |-> 0,
   calls |-> <<>>, target |-> "none", toggled |-> FALSE]

Commit(g) ==
  /\ board' = g.board
  /\ current_player' = g.current_player
  /\ gameover' = g.gameover
  /\ game_result' = g.game_result
  /\ buttons' = g.buttons
  /\ back_button' = g.back_button
  /\ tick' = g.tick

\* prev is the value the cell of a local move held before the move; branch is
\* the branch of handle_response the step's frame took ("-" when the step
\* dispatched nothing).
Label(op, row, col, prev, sent, g, branch) ==
  [op |-> op, row |-> row, col |-> col, prev |-> prev, sent |-> sent,
   recvs |-> g.recvs, raised |-> g.raised, calls |-> g.calls,
   target |-> g.target, toggled |-> g.toggled, branch |-> branch]

\* hist counts, in the session begun by the last start_game: N, the local
\* moves completed; R, the marks placed by the replies to local moves; B, the
\* marks placed by the peer's other frames (the reply to the mode request,
\* the bot loop's ticks); F, the local moves whose dispatch ended in an
\* exception.  Only SpecLocal keeps it.
NoHist == [N |-> 0, R |-> 0, B |-> 0, F |-> 0]

Remote(g) == IF Marks(g.board) > Marks(board) THEN 1 ELSE 0

WidgetsExist == buttons[0][0] # "none"

Init ==
  /\ board = EmptyBoard
  /\ current_player = "X"
  /\ gameover = "None"
  /\ game_result = "None"
  /\ game_mode = "None"
  /\ buttons = [r \in Idx |-> [c \in Idx |-> "none"]]
  /\ back_button = "none"
  /\ tick = FALSE
  /\ ser = "None"
  /\ pc = "idle"
  /\ last = Label("init", -1, -1, " ", <<>>, Self, "-")
  /\ hist = NoHist
  /\ rd = NoCall
  /\ file = NoFile

\* start_config: esp.connect() opens the port, once, before the menu.
Connect ==
  /\ pc = "idle" /\ last.op = "init" /\ ser = "None"
  /\ ser' = "open"
  /\ last' = [last EXCEPT !.op = "connect"]
  /\ UNCHANGED <<board, current_player, gameover, game_result, game_mode,
                 buttons, back_button, tick, pc, hist, rd, file>>

\* start_game up to the call of receive_message.
StartGameSend(mode) ==
  /\ pc = "idle"
  /\ Commit([Self EXCEPT !.board = EmptyBoard, !.current_player = "X",
                         !.gameover = "False", !.game_result = " "])
  /\ game_mode' = mode
  /\ pc' = "start_game"
  /\ last' = Label("start_game", -1, -1, " ",
                   send_message(ser, ModeRequest(mode)), Self, "-")
  /\ hist' = NoHist
  /\ UNCHANGED <<ser, rd, file>>

StartGameReply(f, f2, track) ==
  /\ pc = "start_game"
  /\ \E g \in {start_game_reply(Self, f, f2)} :
       /\ Commit(g)
       /\ last' = Label("start_game_reply", -1, -1, " ", <<>>, g, Branch(f))
       /\ hist' = IF track THEN [hist EXCEPT !.B = @ + Remote(g)] ELSE hist
  /\ pc' = "idle"
  /\ UNCHANGED <<game_mode, ser, rd, file>>

MakeMoveSend_no_wait(row, col) ==
  /\ pc = "idle" /\ WidgetsExist
  /\ Commit(Place(Self, row, col))
  /\ pc' = "idle"
  /\ last' = Label("make_move", row, col, board[row][col],
                   send_message(ser, MoveRequest(current_player, row, col)),
                   Self, "-")
  /\ UNCHANGED <<game_mode, ser, hist, rd, file>>

\* make_move and send_move up to the call of receive_message.
MakeMoveSend(row, col) ==
  /\ pc = "idle" /\ WidgetsExist
  /\ Commit(Place(Self, row, col))
  /\ pc' = "make_move"
  /\ last' = Label("make_move", row, col, board[row][col],
                   send_message(ser, MoveRequest(current_player, row, col)),
                   Self, "-")
  /\ UNCHANGED <<game_mode, ser, hist, rd, file>>

MakeMoveReply(f, f2, track) ==
  /\ pc = "make_move"
  /\ \E g \in {make_move_reply(Self, f, f2)} :
       /\ Commit(g)
       /\ last' = Label("make_move_reply", -1, -1, " ", <<>>, g, Branch(f))
       /\ hist' = IF track
                    THEN [N |-> hist.N + 1, R |-> hist.R + Remote(g),
                          B |-> hist.B,
                          F |-> hist.F + (IF g.raised # "none" THEN 1 ELSE 0)]
                    ELSE hist
  /\ pc' = "idle"
  /\ UNCHANGED <<game_mode, ser, rd, file>>

\* handle_response called on a frame, as the unit tests call it.
HandleResponse(f, f2) ==
  /\ pc = "idle" /\ WidgetsExist
  /\ \E g \in {handle_response(Self, f, f2)} :
       /\ Commit(g)
       /\ last' = Label("handle_response", -1, -1, " ", <<>>, g, Branch(f))
  /\ UNCHANGED <<game_mode, ser, pc, hist, rd, file>>

\* The callback root.after scheduled: one tick of the bot loop.
BotTick(f, track) ==
  /\ pc = "idle" /\ tick
  /\ \E g \in {process_bot_move([Self EXCEPT !.tick = FALSE], f)} :
       /\ Commit(g)
       /\ last' = Label("process_bot_move", -1, -1, " ", <<>>, g, "-")
       /\ hist' = IF track THEN [hist EXCEPT !.B = @ + Remote(g)] ELSE hist
  /\ UNCHANGED <<game_mode, ser, pc, rd, file>>

\* A press of a cell button: Tk calls make_move only for a button that is
\* not disabled.
Click(row, col) ==
  /\ buttons[row][col] = "normal"
  /\ MakeMoveSend(row, col)

Next ==
  \/ Connect
  \/ \E mode \in ModeNames : StartGameSend(mode)
  \/ \E f \in Incoming(ser) : \E f2 \in Second(ser, f) : StartGameReply(f, f2, FALSE)
  \/ \E cell \in PlayCells : MakeMoveSend(cell[1], cell[2])
  \/ \E f \in Incoming(ser) : \E f2 \in Second(ser, f) : MakeMoveReply(f, f2, FALSE)
  \/ \E f \in Incoming(ser) : \E f2 \in Second(ser, f) : HandleResponse(f, f2)
  \/ \E f \in Incoming(ser) : BotTick(f, FALSE)

Spec == Init /\ [][Next]_vars

NextLocal ==
  \/ Connect
  \/ \E mode \in ModeNames : StartGameSend(mode)
  \/ \E f \in Incoming(ser) : \E f2 \in Second(ser, f) : StartGameReply(f, f2, TRUE)
  \/ \E cell \in PlayCells : Click(cell[1], cell[2])
  \/ \E f \in Incoming(ser) : \E f2 \in Second(ser, f) : MakeMoveReply(f, f2, TRUE)
  \/ \E f \in Incoming(ser) : BotTick(f, TRUE)

SpecLocal == Init /\ [][NextLocal]_vars

----------------------------------------------------------------------------
(* The program as its window drives it: the menu, the board, the files.    *)

\* The main menu is on screen: at startup, and after back_to_menu.
MenuShown == back_button = "none"

\* A press of a mode button of the main menu.
MenuStart(mode) ==
  /\ MenuShown
  /\ StartGameSend(mode)

\* A press of Load Game in the main menu.
LoadGame ==
  /\ pc = "idle" /\ MenuShown
  /\ \E g \in {load_game(Self, file)} :
       /\ Commit(g)
       /\ game_mode' = g.game_mode
       /\ last' = Label("load_game", -1, -1, " ", <<>>, g, "-")
  /\ UNCHANGED <<ser, pc, hist, rd, file>>

BackToMenu_ignores_disabled ==
  /\ pc = "idle" /\ back_button # "none"
  /\ Commit(destroy_widgets(Self))
  /\ file' = save_game(Self)
  /\ last' = Label("back_to_menu", -1, -1, " ", <<>>, Self, "-")
  /\ UNCHANGED <<game_mode, ser, pc, hist, rd>>

\* A press of Back to Menu: Tk calls back_to_menu only for a button that is
\* not disabled.
BackToMenu ==
  /\ pc = "idle" /\ back_button \in {"normal", "active"}
  /\ Commit(destroy_widgets(Self))
  /\ file' = save_game(Self)
  /\ last' = Label("back_to_menu", -1, -1, " ", <<>>, Self, "-")
  /\ UNCHANGED <<game_mode, ser, pc, hist, rd>>

\* The window is closed (on_close saves and quits) and the program is
\* started again: a new TicTacToe object beside the file the old one wrote.
OnClose ==
  /\ pc = "idle" /\ last.op # "init"
  /\ file' = save_game(Self)
  /\ board' = EmptyBoard
  /\ current_player' = "X"
  /\ gameover' = "None"
  /\ game_result' = "None"
  /\ game_mode' = "None"
  /\ buttons' = [r \in Idx |-> [c \in Idx |-> "none"]]
  /\ back_button' = "none"
  /\ tick' = FALSE
  /\ ser' = "None"
  /\ last' = Label("init", -1, -1, " ", <<>>, Self, "-")
  /\ UNCHANGED <<pc, hist, rd>>

\* A document of an earlier run that lost the element e: X at (0, 0), O to
\* move, a pvp game in progress.
TornFile(e) ==
  [save_game([board |-> [EmptyBoard EXCEPT ![0][0] = "X"],
              current_player |-> "O", game_result |-> " ",
              game_mode |-> "pvp"])
     EXCEPT !.els = Elements \ {e}]

InitFiles == {NoFile, UnparsableFile} \cup {TornFile(e) : e \in Elements}

InitUI ==
  /\ board = EmptyBoard
  /\ current_player = "X"
  /\ gameover = "None"
  /\ game_result = "None"
  /\ game_mode = "None"
  /\ buttons = [r \in Idx |-> [c \in Idx |-> "none"]]
  /\ back_button = "none"
  /\ tick = FALSE
  /\ ser = "None"
  /\ pc = "idle"
  /\ last = Label("init", -1, -1, " ", <<>>, Self, "-")
  /\ hist = NoHist
  /\ rd = NoCall
  /\ file \in InitFiles

\* In SpecUI, presses and the peer's moves go to the first MaxUICells cells
\* of the board in row-major order.
MaxUICells == 1

UICells == {cell \in Cells : cell[1] * Size + cell[2] < MaxUICells}

UIFrames(port) ==
  {f \in Incoming(port) :
     f \in GoodMoveFrames => <<ToInt(f.x), ToInt(f.y)>> \in UICells}

UISecond(port, f) == IF EntersBotLoop(f) THEN UIFrames(port) ELSE {NoFrame}

NextUI ==
  \/ Connect
  \/ \E mode \in ModeNames : MenuStart(mode)
  \/ \E f \in UIFrames(ser) : \E f2 \in UISecond(ser, f) : StartGameReply(f, f2, FALSE)
  \/ \E cell \in UICells : Click(cell[1], cell[2])
  \/ \E f \in UIFrames(ser) : \E f2 \in UISecond(ser, f) : MakeMoveReply(f, f2, FALSE)
  \/ \E f \in UIFrames(ser) : BotTick(f, FALSE)
  \/ LoadGame
  \/ BackToMenu
  \/ OnClose

SpecUI == InitUI /\ [][NextUI]_vars

----------------------------------------------------------------------------
(* esp32.send_message and esp32.receive_message from the inside, one        *)
(* statement per step.  Text is a sequence of characters of a small         *)
(* alphabet: "a" stands for any character that is not whitespace, " " and   *)
(* "\n" are whitespace, and "/" ">" stand for the closing tag of the        *)
(* response envelope.  bytes.decode() keeps every such character as it is   *)
(* and raises for bytes that are no text; the raise is ReadlineRaises.      *)

\* A frame is "a", at most MaxBody more characters, and the closing tag.
MaxBody == 2

\* A call makes at most MaxReads reads beyond those that deliver characters.
MaxReads == 6

\* send_message is called at most MaxWrites times before receive_message.
MaxWrites == 2

Whitespace == {" ", "\n"}

Terminator == <<"/", ">">>

BodyChars == {"a", " ", "\n"}

Bodies == UNION {[1 .. n -> BodyChars] : n \in 0 .. MaxBody}

ValidFrames == {<<"a">> \o b \o Terminator : b \in Bodies}

\* What the peer sends after the frame: nothing, or the next frame.
Tails == {<<>>, <<"a", "/", ">", "\n">>}

\* What a peer sends that never completes a frame.
Unterminated == {<<>>, <<"a", "\n">>, <<"a", "/">>}

RECURSIVE lstrip(_)
lstrip(s) ==
  IF s # <<>> /\ Head(s) \in Whitespace THEN lstrip(Tail(s)) ELSE s

RECURSIVE rstrip(_)
rstrip(s) ==
  IF s # <<>> /\ s[Len(s)] \in Whitespace
    THEN rstrip(SubSeq(s, 1, Len(s) - 1))
    ELSE s

\* str.strip(): leading and trailing whitespace removed.
strip(s) == rstrip(lstrip(s))

endswith(s, t) ==
  Len(s) >= Len(t) /\ SubSeq(s, Len(s) - Len(t) + 1, Len(s)) = t

\* "".join(parts)
RECURSIVE join(_)
join(parts) ==
  IF parts = <<>> THEN <<>> ELSE Head(parts) \o join(Tail(parts))

\* The most one readline() call returns of the characters buf that the peer
\* is still to deliver: the line up to and with its "\n", or all of buf when
\* no "\n" is in it.  The port's timeout of one second can end the call
\* earlier, with any shorter prefix, the empty one too.
LineEnd(buf) ==
  IF \E i \in DOMAIN buf : buf[i] = "\n"
    THEN CHOOSE i \in DOMAIN buf :
           buf[i] = "\n" /\ \A j \in 1 .. (i - 1) : buf[j] # "\n"
    ELSE Len(buf)

after_readline_any_line_ends(r) ==
  LET line == strip(r.line)
      data == IF line # <<>> THEN Append(r.response_data, line)
                             ELSE r.response_data
  IN IF line # <<>>
       THEN [r EXCEPT !.pc = "returned", !.response_data = data,
                      !.result = [kind |-> "frame", text |-> join(data)]]
       ELSE [r EXCEPT !.pc = "readline", !.response_data = data]

\* The body of the loop of receive_message after readline() has returned
\* r.line: strip, append when not empty, leave the loop and return the
\* joined lines when the line ends with the closing tag.
after_readline(r) ==
  LET line == strip(r.line)
      data == IF line # <<>> THEN Append(r.response_data, line)
                             ELSE r.response_data
  IN IF endswith(line, Terminator)
       THEN [r EXCEPT !.pc = "returned", !.response_data = data,
                      !.result = [kind |-> "frame", text |-> join(data)]]
       ELSE [r EXCEPT !.pc = "readline", !.response_data = data]

receive_message_reads_closed_port(r, port) ==
  [r EXCEPT !.pc = "readline", !.response_data = <<>>]

\* receive_message up to the loop: the test of the port.
receive_message(r, port) ==
  IF port # "open"
    THEN [r EXCEPT !.pc = "returned",
                   !.result = [kind |-> NotConnectedText, text |-> <<>>]]
    ELSE [r EXCEPT !.pc = "readline", !.response_data = <<>>]

gameVars ==
  <<board, current_player, gameover, game_result, game_mode, buttons,
    back_button, tick, pc, last, hist, file>>

\* An esp32 object whose port is absent, closed or open, and a peer that is
\* about to send a frame (and perhaps the next one), or no complete frame.
InitReader ==
  /\ board = EmptyBoard
  /\ current_player = "X"
  /\ gameover = "None"
  /\ game_result = "None"
  /\ game_mode = "None"
  /\ buttons = [r \in Idx |-> [c \in Idx |-> "none"]]
  /\ back_button = "none"
  /\ tick = FALSE
  /\ pc = "idle"
  /\ last = Label("init", -1, -1, " ", <<>>, Self, "-")
  /\ hist = NoHist
  /\ file = NoFile
  /\ ser \in {"None", "closed", "open"}
  /\ rd \in {[NoCall EXCEPT !.buf = f \o <<"\n">> \o t, !.frame = f] :
               f \in ValidFrames, t \in Tails}
            \cup {[NoCall EXCEPT !.buf = u] : u \in Unterminated}

\* send_message(message) on a port that accepts the write.
SendCall(message) ==
  /\ rd.pc = "idle" /\ Len(rd.written) < MaxWrites
  /\ rd' = [rd EXCEPT !.written = @ \o send_message(ser, message),
                      !.status = IF ser # "open" THEN NotConnectedText
                                                 ELSE "Sent"]
  /\ UNCHANGED <<gameVars, ser>>

\* send_message(message) when ser.write raises SerialException.
SendRaises(message) ==
  /\ rd.pc = "idle" /\ Len(rd.written) < MaxWrites /\ ser = "open"
  /\ rd' = [rd EXCEPT !.status = "Error"]
  /\ UNCHANGED <<gameVars, ser>>

ReceiveCall ==
  /\ rd.pc = "idle"
  /\ rd' = receive_message(rd, ser)
  /\ UNCHANGED <<gameVars, ser>>

\* One readline() call returns the next n characters.
Readline(n) ==
  /\ rd.pc = "readline"
  /\ n \in 0 .. LineEnd(rd.buf)
  /\ n = 0 => rd.reads + Len(rd.buf) < MaxReads
  /\ rd' = [rd EXCEPT !.pc = "check",
                      !.line = SubSeq(rd.buf, 1, n),
                      !.lines = Append(@, SubSeq(rd.buf, 1, n)),
                      !.buf = SubSeq(rd.buf, n + 1, Len(rd.buf)),
                      !.reads = @ + 1]
  /\ UNCHANGED <<gameVars, ser>>

\* readline() or decode() raises: the except clause returns "Error: ...".
ReadlineRaises ==
  /\ rd.pc = "readline"
  /\ rd' = [rd EXCEPT !.pc = "returned", !.reads = @ + 1,
                      !.result = [kind |-> "Error", text |-> <<>>]]
  /\ UNCHANGED <<gameVars, ser>>

AfterReadline ==
  /\ rd.pc = "check"
  /\ rd' = after_readline(rd)
  /\ UNCHANGED <<gameVars, ser>>

NextReader ==
  \/ SendCall(MoveRequest("X", 0, 0))
  \/ SendRaises(MoveRequest("X", 0, 0))
  \/ ReceiveCall
  \/ \E n \in 0 .. (MaxBody + 4) : Readline(n)
  \/ ReadlineRaises
  \/ AfterReadline

SpecReader == InitReader /\ [][NextReader]_vars

\* The statements of receive_message run on once readline() has returned.
SpecReaderFair == SpecReader /\ WF_vars(AfterReadline)

----------------------------------------------------------------------------
(* The claims. *)

TerminalResults == {"Player X won", "Player O won", "Draw"}

ResultOf(status) ==
  CASE status = "X" -> "Player X won"
    [] status = "O" -> "Player O won"
    [] status = "Draw" -> "Draw"

AllDisabled(bs) == \A cell \in Cells : bs[cell[1]][cell[2]] = "disabled"

\* The step continues the session: it is not the start of a new one.
SameSession == last'.op # "start_game"

\* What handle_response(f) leaves when it is called in this state, by itself
\* or as the last call of start_game, and enters no bot loop.
Dispatched(f) ==
  IF pc = "idle" /\ WidgetsExist THEN {handle_response(Self, f, NoFrame)}
  ELSE IF pc = "start_game" THEN {start_game_reply(Self, f, NoFrame)}
  ELSE {}

\* The same, with the dispatch that make_move's send_move ends in.
DispatchedAnywhere(f) ==
  IF pc = "make_move" THEN {make_move_reply(Self, f, NoFrame)}
  ELSE Dispatched(f)

\* C1: within a session, a cell that holds X or O keeps its value in every
\* step (local move, dispatched response, bot tick).
C1_CellNeverOverwritten ==
  [][SameSession =>
       \A cell \in Cells :
         board[cell[1]][cell[2]] # " " =>
           board'[cell[1]][cell[2]] = board[cell[1]][cell[2]]]_vars

\* C2: make_move on a cell that is not Empty, or when the result is
\* terminal, is rejected: nothing is written, make_move does not go on to
\* receive, and board, player and result stay as they were.
C2_InvalidMoveRejected ==
  [][(last'.op = "make_move"
        /\ (last'.prev # " " \/ game_result \in TerminalResults)) =>
       /\ last'.sent = <<>>
       /\ pc' = "idle"
       /\ board' = board
       /\ current_player' = current_player
       /\ game_result' = game_result]_vars

\* C3: within a session the result changes only to a terminal value, and a
\* terminal result never changes again.
C3_ResultChangesOnce ==
  [][SameSession =>
       /\ game_result \in TerminalResults => game_result' = game_result
       /\ game_result' # game_result => game_result' \in TerminalResults]_vars

\* C4: once the result is terminal, no later step of the session changes a
\* cell of the board.
C4_BoardFrozenAfterTerminal ==
  [][(SameSession /\ game_result \in TerminalResults) => board' = board]_vars

\* C5: dispatching a gameover response with status X, O or Draw sets
\* gameover, records the matching result and disables all nine cell buttons
\* in the one step of the dispatch, through one call of game_over, and
\* leaves the board as it was.
C5_GameOverDispatch ==
  \A s \in {"X", "O", "Draw"} :
    \A g \in DispatchedAnywhere(GameOverFrame(s)) :
      /\ g.gameover = "True"
      /\ g.game_result = ResultOf(s)
      /\ AllDisabled(g.buttons)
      /\ g.calls = <<"game_over">>
      /\ g.raised = "none"
      /\ g.board = board

C5_Witness ==
  /\ last.op = "handle_response"
  /\ last.calls = <<"game_over">>
  /\ gameover = "True"
  /\ game_result = "Player O won"
  /\ AllDisabled(buttons)

\* C6: dispatching a move response with status Continue at an Empty cell
\* (x, y) when the current player is P leaves Opp(P) in the cell and Opp(P)
\* as the current player.
C6_ToggleBeforePlace ==
  \A f \in GoodMoveFrames :
    (f.status = "Continue" /\ board[ToInt(f.x)][ToInt(f.y)] = " ") =>
      \A g \in Dispatched(f) :
        /\ g.board[ToInt(f.x)][ToInt(f.y)] = Opp(current_player)
        /\ g.current_player = Opp(current_player)

C6_Witness ==
  /\ last.op = "handle_response"
  /\ last.calls = <<"handle_move">>
  /\ last.target = "empty"
  /\ current_player = "X"
  /\ board[0][1] = "X"
  /\ board[0][0] = "X"

\* C7: dispatching a move response at an occupied cell leaves the board as
\* it was, and the status still decides the result: X, O or Draw end the
\* game as they do for an Empty cell, Continue leaves the result alone.
C7_OccupiedCellStatusCheck ==
  \A f \in GoodMoveFrames :
    board[ToInt(f.x)][ToInt(f.y)] # " " =>
      \A g \in Dispatched(f) :
        /\ g.board = board
        /\ f.status \in {"X", "O", "Draw"} =>
             /\ g.gameover = "True"
             /\ g.game_result = ResultOf(f.status)
             /\ AllDisabled(g.buttons)
        /\ f.status = "Continue" =>
             /\ g.gameover = gameover
             /\ g.game_result = game_result

C7_Witness ==
  /\ last.op = "handle_response"
  /\ last.calls = <<"handle_move", "game_over">>
  /\ last.target = "occupied"
  /\ gameover = "True"
  /\ game_result = "Draw"
  /\ Marks(board) = 1

\* C8 as stated: in a session begun by start_game with the player X, after
\* N completed local moves of a game still in progress the player is X when
\* N is even and O when N is odd.  (Stated for the sessions in which no
\* dispatch raised, no bot loop was entered and no frame outside the replies
\* to the local moves placed a mark.)
C8_ParityOfLocalMoves ==
  (/\ pc = "idle" /\ gameover # "True"
   /\ hist.B = 0 /\ hist.F = 0 /\ back_button = "normal") =>
    (current_player = "X" <=> hist.N % 2 = 0)

\* C8, amended: while the game is in progress the player is X exactly when
\* N + R + B - F is even: every completed local move toggles once unless its
\* dispatch raised, and every mark placed for a frame of the peer toggles
\* once more.
C8_TurnParity ==
  gameover # "True" =>
    (current_player = "X" <=> (hist.N + hist.R + hist.B - hist.F) % 2 = 0)

C8_Witness ==
  /\ pc = "idle"
  /\ gameover = "False"
  /\ hist = [N |-> 2, R |-> 0, B |-> 0, F |-> 0]
  /\ current_player = "X"
  /\ board[0][0] = "X"
  /\ board[0][1] = "O"

\* The first half of C9, which holds as stated: up to the receive, make_move
\* puts the mark of the current player P in the chosen cell, writes one move
\* request naming P and the cell to an open port, and leaves the player P.
LocalMoveSends ==
  last'.op = "make_move" =>
    /\ board'[last'.row][last'.col] = current_player
    /\ current_player' = current_player
    /\ ~last'.toggled
    /\ ser = "open" =>
         last'.sent = <<[type |-> "move", name |-> current_player,
                         x |-> last'.row, y |-> last'.col, newlines |-> 1]>>

\* C9 as stated: after the dispatch of the reply make_move switches the
\* player to Opp(P), exactly when the game is not over.  (Stated for the
\* replies whose dispatch returns and enters no bot loop.)
C9_SwitchToOpposite ==
  [][/\ LocalMoveSends
     /\ (last'.op = "make_move_reply" /\ last'.raised = "none"
           /\ back_button' = back_button) =>
          /\ last'.toggled <=> gameover' # "True"
          /\ last'.toggled => current_player' = Opp(current_player)]_vars

\* C9, amended: after the dispatch make_move calls change_player once,
\* exactly when the dispatch returned without an exception and the game is
\* not over; the player it leaves is Opp(P), unless the dispatch placed a
\* mark for the peer and so toggled the player itself, and then it is P.
C9_LocalMoveOrder ==
  [][/\ LocalMoveSends
     /\ last'.op = "make_move_reply" =>
          /\ last'.toggled <=> (last'.raised = "none" /\ gameover' # "True")
          /\ current_player' = Opp(current_player) <=>
               (last'.toggled # (Marks(board') > Marks(board)))]_vars

C9_Witness ==
  /\ last.op = "make_move_reply"
  /\ last.toggled
  /\ last.calls = <<"handle_move">>
  /\ last.target = "empty"
  /\ current_player = "X"
  /\ board[0][0] = "X"
  /\ board[0][1] = "O"

\* C10: when make_move completes, either its mark is on the board and the
\* turn has been toggled (or the game is over), or board and player are as
\* they were before the move.
C10_NeverPartial ==
  [][last'.op = "make_move_reply" =>
       \/ /\ board'[last.row][last.col] = current_player
          /\ last'.toggled \/ gameover' = "True"
       \/ /\ board' = [board EXCEPT ![last.row][last.col] = last.prev]
          /\ current_player' = current_player]_vars

\* The branches of handle_response that call no handler: text that is no
\* XML document, a root tag other than response, type error, any other type.
InertBranches == {"ParseError", "tag", "error", "none"}

\* C11: dispatching a frame that is not well-formed, has another root tag,
\* is an error response or has an unrecognized type calls no handler, raises
\* nothing and leaves board, player, gameover, result and mode as they were
\* (after it, make_move toggles the player as after every reply of a game in
\* progress).
C11_InertFramesChangeNothing ==
  [][(last'.op \in {"handle_response", "start_game_reply", "make_move_reply"}
        /\ last'.branch \in InertBranches) =>
       /\ board' = board
       /\ gameover' = gameover
       /\ game_result' = game_result
       /\ game_mode' = game_mode
       /\ last'.raised = "none"
       /\ last'.calls = <<>>
       /\ current_player' =
            IF last'.toggled THEN Opp(current_player) ELSE current_player
       /\ last'.toggled =>
            (last'.op = "make_move_reply" /\ gameover # "True")]_vars

C11_Witness ==
  /\ last.op = "handle_response"
  /\ last.branch = "tag"
  /\ last.calls = <<>>
  /\ Marks(board) = 1
  /\ current_player = "O"
  /\ gameover = "False"

\* C12: a move or gameover response with a missing or malformed field is
\* dropped: no exception leaves handle_response or process_bot_move for it,
\* and the step that received it leaves board, player and result as they
\* were (but for the toggle make_move adds after every reply).
C12_MalformedFieldsDropped ==
  [][/\ last'.branch \in {"move", "gameover"} => last'.raised = "none"
     /\ last'.op = "process_bot_move" => last'.raised # "Error"
     /\ last'.raised = "Error" =>
          /\ board' = board
          /\ game_result' = game_result
          /\ current_player' =
               IF last'.toggled THEN Opp(current_player) ELSE current_player]_vars

\* How many times the handler name was entered in the step.
Count(calls, name) == Cardinality({i \in DOMAIN calls : calls[i] = name})

\* C13: for a well-formed frame with the root tag response, handle_response
\* itself calls one handler, picked by the type attribute: handle_move for
\* move, game_over for gameover, handle_bot_v_bot for mode exactly when the
\* mode name is botvbot, and none for any other type.  (handle_move and the
\* bot loop call game_over themselves for a status other than Continue.)
C13_OneHandlerByType ==
  [][last'.op \in {"handle_response", "start_game_reply", "make_move_reply"} =>
       /\ last'.branch = "move" =>
            /\ Head(last'.calls) = "handle_move"
            /\ Count(last'.calls, "handle_move") = 1
            /\ Tail(last'.calls) \in {<<>>, <<"game_over">>}
       /\ last'.branch = "gameover" => last'.calls = <<"game_over">>
       /\ last'.branch = "mode botvbot" =>
            /\ Head(last'.calls) = "handle_bot_v_bot"
            /\ Count(last'.calls, "handle_bot_v_bot") = 1
            /\ Count(last'.calls, "handle_move") = 0
       /\ last'.branch \in {"mode", "error", "none"} => last'.calls = <<>>]_vars

C13_Witness ==
  /\ last.op = "handle_response"
  /\ last.branch = "gameover"
  /\ last.calls = <<"game_over">>
  /\ game_result = "Player X won"
  /\ Marks(board) = 2

\* A line as read, less its own line terminator.
Content(line) ==
  IF line # <<>> /\ line[Len(line)] = "\n"
    THEN SubSeq(line, 1, Len(line) - 1)
    ELSE line

IsLine(chunk) == chunk # <<>> /\ chunk[Len(chunk)] = "\n"

\* C14: when a receive_message call on an open port returns a frame after
\* reading whole lines, it has made one read per line, the last line read
\* is the first whose content ends with the closing tag, and the frame is
\* the contents of the lines read, in order, nothing added and nothing
\* discarded.
C14_LinesToFirstTerminator ==
  (/\ rd.pc = "returned" /\ rd.result.kind = "frame"
   /\ \A i \in DOMAIN rd.lines : IsLine(rd.lines[i])) =>
    /\ rd.reads = Len(rd.lines)
    /\ \A i \in DOMAIN rd.lines :
         endswith(Content(rd.lines[i]), Terminator) <=> i = Len(rd.lines)
    /\ rd.result.text = join([i \in DOMAIN rd.lines |-> Content(rd.lines[i])])

\* The frame as text, each of its lines less its line terminator.
WithoutLineTerminators(f) == SelectSeq(f, LAMBDA c : c # "\n")

\* C15: however the characters of a valid frame are split over the reads,
\* the frame receive_message returns is the frame sent, each line less its
\* line terminator only.
C15_SplitFrameReconstructed ==
  (rd.pc = "returned" /\ rd.result.kind = "frame" /\ rd.frame # <<>>) =>
    rd.result.text = WithoutLineTerminators(rd.frame)

\* C16: on a port that is absent or not open, send_message and
\* receive_message return "Port not opened or connection lost." at once:
\* nothing is written, nothing is read, and the call never enters the loop.
C16_NotConnectedOutcome ==
  ser # "open" =>
    /\ rd.written = <<>>
    /\ rd.reads = 0 /\ rd.lines = <<>>
    /\ rd.pc \in {"idle", "returned"}
    /\ rd.status \in {"none", NotConnectedText}
    /\ rd.pc = "returned" => rd.result = [kind |-> NotConnectedText, text |-> <<>>]
    /\ rd.pc = "idle" => rd.result.kind = "none"

C16_Witness ==
  /\ ser = "closed"
  /\ rd.status = NotConnectedText
  /\ rd.pc = "returned"
  /\ rd.result.kind = NotConnectedText
  /\ rd.buf # <<>>
  /\ rd.reads = 0

\* The line just read carries the closing tag: nothing but whitespace
\* follows the tag in it.
CarriesTerminator(line) == endswith(strip(line), Terminator)

\* C17: a receive_message call on an open port returns only a frame whose
\* last line read carries the closing tag, or a read error; a read that
\* brings no closing tag, the empty read of a timeout included, does not end
\* the call; and once a line with the closing tag has been read the call
\* returns.
C17_ReturnsOnlyOnTerminator ==
  /\ [](rd.pc = "returned" /\ ser = "open" =>
          \/ rd.result.kind = "Error"
          \/ /\ rd.result.kind = "frame"
             /\ rd.lines # <<>>
             /\ CarriesTerminator(rd.lines[Len(rd.lines)])
             /\ \A i \in 1 .. (Len(rd.lines) - 1) :
                  ~CarriesTerminator(rd.lines[i]))
  /\ [][(rd.pc = "check" /\ ~CarriesTerminator(rd.line)) =>
          rd'.pc = "readline"]_vars
  /\ (rd.pc = "check" /\ CarriesTerminator(rd.line)) ~> rd.pc = "returned"

C17_Witness ==
  /\ ser = "open"
  /\ rd.pc = "returned"
  /\ rd.result.kind = "frame"
  /\ rd.reads = 4
  /\ rd.lines[1] = <<>>
  /\ rd.lines[3] = <<>>
  /\ CarriesTerminator(rd.lines[4])

\* C18: what start_game and make_move write to an open port is one request
\* envelope followed by one newline: the mode request names the mode chosen,
\* the move request names the player whose move it is and the row and
\* column chosen as x and y.  No other step writes.
C18_RequestFrames ==
  [][/\ last'.op = "start_game" =>
          last'.sent =
            IF ser = "open"
              THEN <<[type |-> "mode", name |-> game_mode',
                      x |-> -1, y |-> -1, newlines |-> 1]>>
              ELSE <<>>
     /\ last'.op = "make_move" =>
          last'.sent =
            IF ser = "open"
              THEN <<[type |-> "move", name |-> current_player,
                      x |-> last'.row, y |-> last'.col, newlines |-> 1]>>
              ELSE <<>>
     /\ last'.op \notin {"start_game", "make_move"} => last'.sent = <<>>]_vars

C18_Witness ==
  /\ pc = "make_move"
  /\ last.op = "make_move"
  /\ current_player = "O"
  /\ last.sent = <<[type |-> "move", name |-> "O", x |-> 0, y |-> 1,
                    newlines |-> 1]>>

\* C19 as stated: a request is written only when none is outstanding, and
\* between two requests exactly one frame is received: every receive is the
\* one receive of the reply to the outstanding request.
C19_ExactlyOneFramePerRequest ==
  [][/\ last'.sent # <<>> => (pc = "idle" /\ pc' # "idle")
     /\ pc # "idle" => (pc' = "idle" /\ last'.sent = <<>>)
     /\ last'.recvs > 0 => (pc # "idle" /\ last'.recvs = 1)]_vars

\* C19, amended: a request is written only when none is outstanding; the
\* next step is the reply's: it receives one frame and dispatches it to the
\* end, and only then can another request be written.  Frames are received
\* without a request too: the dispatch of a mode response naming botvbot
\* receives a second frame in the reply's step, and each tick of the bot
\* loop receives one.
C19_OneOutstandingRequest ==
  [][/\ last'.sent # <<>> =>
          (pc = "idle" /\ pc' # "idle" /\ Len(last'.sent) = 1)
     /\ pc # "idle" =>
          /\ pc' = "idle" /\ last'.sent = <<>>
          /\ last'.op = IF pc = "start_game" THEN "start_game_reply"
                                             ELSE "make_move_reply"
          /\ last'.recvs = IF last'.branch = "mode botvbot" THEN 2 ELSE 1
     /\ (pc = "idle" /\ last'.recvs > 0) =>
          (tick /\ last'.op = "process_bot_move" /\ last'.recvs = 1)]_vars

C19_Witness ==
  /\ ser = "open"
  /\ pc = "idle"
  /\ last.op = "make_move_reply"
  /\ last.recvs = 1
  /\ hist.N = 2
  /\ Marks(board) = 2

\* C20: a dispatch enters the bot loop (handle_bot_v_bot: all cell buttons
\* and the back button disabled, the first process_bot_move called) exactly
\* when its frame is a mode response naming botvbot, and polling is never
\* pending otherwise; a mode response naming pvp or pvbot calls nothing and
\* leaves board, buttons and back button as start_game or the game before
\* it left them.
C20_BotLoopEntry ==
  [][/\ last'.op \in {"handle_response", "start_game_reply", "make_move_reply"} =>
          /\ Count(last'.calls, "handle_bot_v_bot") =
               IF last'.branch = "mode botvbot" THEN 1 ELSE 0
          /\ last'.branch = "mode botvbot" =>
               /\ SubSeq(last'.calls, 1, 2) = <<"handle_bot_v_bot", "process_bot_move">>
               /\ AllDisabled(buttons')
               /\ back_button' =
                    IF Count(last'.calls, "game_over") = 1 THEN "active"
                                                            ELSE "disabled"
          /\ (last'.branch = "mode" /\ last'.raised = "none") =>
               /\ last'.calls = <<>>
               /\ board' = board /\ tick' = tick
               /\ buttons' = IF last'.op = "start_game_reply"
                               THEN create_board(Self).buttons ELSE buttons
               /\ back_button' = IF last'.op = "start_game_reply"
                                   THEN "normal" ELSE back_button
     /\ (tick' /\ ~tick) => last'.branch = "mode botvbot"
     /\ last'.op = "process_bot_move" => tick]_vars

C20_Witness ==
  /\ last.op = "start_game_reply"
  /\ last.branch = "mode botvbot"
  /\ game_mode = "botvbot"
  /\ tick
  /\ AllDisabled(buttons)
  /\ back_button = "disabled"
  /\ Marks(board) = 1

C23_LoopNeverStuck == back_button = "disabled" => tick

\* C24: a tick of the bot loop applies the frame it receives as
\* handle_response would.  In every state where a tick is pending, and for
\* every complete move response and every gameover response with a status,
\* process_bot_move and handle_response leave the same board, the same
\* current player and the same game result.
C24_TickAsDispatcher ==
  tick =>
    \A f \in GoodMoveFrames \cup {GameOverFrame(s) : s \in Statuses} :
      LET a == process_bot_move([Self EXCEPT !.tick = FALSE], f)
          b == handle_response(Self, f, NoFrame)
      IN /\ a.board = b.board
         /\ a.current_player = b.current_player
         /\ a.game_result = b.game_result

\* C25: start_game(mode) replaces board, player, gameover and result
\* together and sets game_mode to mode before it sends the request, and when
\* it returns (its dispatch raised nothing) game_mode is still mode, the
\* current player is X, gameover is False and the board's widgets exist.
C25_StartGamePostcondition ==
  [][ /\ (last'.op = "start_game")
           => /\ board' = EmptyBoard /\ current_player' = "X"
              /\ gameover' = "False" /\ game_result' = " "
              /\ game_mode' \in ModeNames
              /\ ser = "open" => last'.sent = <<ModeRequest(game_mode')>>
      /\ (last'.op = "start_game_reply" /\ last'.raised = "none")
           => /\ game_mode' = game_mode
              /\ current_player' = "X"
              /\ gameover' = "False"
              /\ buttons'[0][0] # "none" /\ back_button' # "none"
    ]_vars

\* C26: a session is started only by the mode response that accepts the mode
\* request.  start_game replaces nothing and presents no board before the
\* reply is in, and a reply that is an error response or text that does not
\* parse (undecodable, or the text of a transport error) leaves board,
\* player, result and the widgets as they were before start_game.
C26_SessionOnlyOnModeAck ==
  [][ /\ (last'.op = "start_game")
           => /\ board' = board /\ current_player' = current_player
              /\ game_result' = game_result /\ buttons' = buttons
      /\ (last'.op = "start_game_reply" /\ last'.branch \in {"ParseError", "error"})
           => /\ board' = board /\ current_player' = current_player
              /\ game_result' = game_result /\ buttons' = buttons
    ]_vars

\* C27: load_game replaces board, current player and game result (and the
\* gameover flag with it) together from the saved document; when the file
\* is missing, does not parse or lacks an element, all four keep the values
\* they had.
C27_LoadAllOrNothing ==
  [][ (last'.op = "load_game")
        => IF file.state = "doc" /\ file.els = Elements
             THEN /\ board' = BoardOf(file.rows)
                  /\ current_player' = file.player
                  /\ game_result' = file.result
                  /\ (gameover' = "True") <=> (file.result \in TerminalResults)
             ELSE /\ board' = board /\ current_player' = current_player
                  /\ game_result' = game_result /\ gameover' = gameover
    ]_vars

\* A new TicTacToe object: the fields as __init__ leaves them.
Fresh ==
  [Self EXCEPT !.board = EmptyBoard, !.current_player = "X",
               !.gameover = "None", !.game_result = "None",
               !.game_mode = "None",
               !.buttons = [r \in Idx |-> [c \in Idx |-> "none"]],
               !.back_button = "none", !.tick = FALSE]

\* C28: in every state between two handlers, the document save_game writes,
\* loaded by the same client or by a fresh one, gives back the board, the
\* current player, the game result and the game mode that were saved, and
\* saving again after the load writes the same document.
C28_SaveLoadRoundTrip ==
  pc = "idle" =>
    \A client \in {Self, Fresh} :
      LET doc == save_game(Self)
          g == load_game(client, doc)
      IN /\ g.board = board
         /\ g.current_player = current_player
         /\ g.game_result = game_result
         /\ g.game_mode = game_mode
         /\ save_game(g) = doc

\* C29: the game state is used by one call path at a time.  While a tick of
\* the bot loop is pending, the only handler that starts is that tick (no
\* local move, no start_game, no load_game, no back_to_menu); the loop is
\* entered only when no tick is pending, so at most one is; and while
\* start_game or make_move waits for its reply, the only step is the rest of
\* that call.
C29_OneCallPath ==
  [][ /\ tick => last'.op \in {"process_bot_move", "init"}
      /\ Count(last'.calls, "handle_bot_v_bot") = 1 => ~tick
      /\ (tick' /\ last'.op # "process_bot_move") => ~tick
      /\ pc = "start_game" => last'.op = "start_game_reply"
      /\ pc = "make_move" => last'.op = "make_move_reply"
    ]_vars

\* The loop has just been entered from start_game: every button is disabled
\* and the first tick is pending.
C29_Witness ==
  /\ last.op = "start_game_reply" /\ last.branch = "mode botvbot"
  /\ tick /\ back_button = "disabled"
  /\ \A cell \in Cells : buttons[cell[1]][cell[2]] = "disabled"

\* C30, as stated: dispatching a move response toggles the current player
\* once, whether the target cell is Empty or occupied.
C30_AlwaysToggles ==
  \A f \in GoodMoveFrames :
    \A g \in Dispatched(f) : g.current_player = Opp(current_player)

\* C30, amended: dispatching a move response toggles the current player once
\* when the target cell is Empty and leaves the current player as it is when
\* the cell is occupied, whatever the status.
C30_ToggleOnlyWithPlacement ==
  \A f \in GoodMoveFrames :
    \A g \in Dispatched(f) :
      g.current_player = IF board[ToInt(f.x)][ToInt(f.y)] = " "
                           THEN Opp(current_player)
                           ELSE current_player

\* A move response at (0, 0) placed O there, and a second one at the same
\* cell has been dispatched: O is still the current player.
C30_Witness ==
  /\ last.op = "handle_response"
  /\ last.calls = <<"handle_move">>
  /\ last.target = "occupied"
  /\ Marks(board) = 1 /\ board[0][0] = "O"
  /\ current_player = "O"

\* C31: a mode response that arrives as the reply to a move request is not
\* acted on.  The step that dispatches it calls no handle_bot_v_bot and
\* schedules no tick, leaves the board as the local move left it, and leaves
\* the turn to make_move's own change_player.
C31_ModeAckOnlyBeforeSession ==
  [][ (last'.op = "make_move_reply" /\ last'.branch \in {"mode", "mode botvbot"}
         /\ last'.raised = "none")
        => /\ Count(last'.calls, "handle_bot_v_bot") = 0
           /\ ~tick'
           /\ board' = board
           /\ current_player' = Opp(current_player)
    ]_vars

C33_DelayBeforeEveryReceive ==
  [][ /\ Count(last'.calls, "handle_bot_v_bot") = 1
           => Count(last'.calls, "process_bot_move") = 0
      /\ Count(last'.calls, "process_bot_move") = 1
           => /\ last'.op = "process_bot_move"
              /\ tick /\ last'.recvs = 1
    ]_vars

\* The number of cells of b that hold mark.
CountOf(b, mark) == Cardinality({cell \in Cells : b[cell[1]][cell[2]] = mark})

\* C34: between two operations of a game in progress, X has made as many
\* moves as O or one more, and the current player is X exactly when the two
\* counts are equal.
C34_MarkTurnConsistency ==
  (pc = "idle" /\ WidgetsExist /\ gameover = "False")
    => /\ CountOf(board, "X") - CountOf(board, "O") \in {0, 1}
       /\ (current_player = "X") <=> (CountOf(board, "X") = CountOf(board, "O"))

\* C35: a cell button is enabled only if its cell is Empty, the game result
\* is not terminal and no tick of the bot loop is pending; so the make_move
\* that a press starts finds its cell Empty and the game not over.
C35_EnabledOnlyIfPlayable ==
  /\ [](\A cell \in Cells :
          buttons[cell[1]][cell[2]] = "normal"
            => /\ board[cell[1]][cell[2]] = " "
               /\ game_result \notin TerminalResults /\ gameover # "True"
               /\ ~tick)
  /\ [][ last'.op = "make_move"
           => /\ last'.prev = " "
              /\ game_result \notin TerminalResults /\ gameover # "True"
              /\ ~tick
       ]_vars

\* A press on the enabled button of an Empty cell of a game in progress has
\* placed X; the buttons of the other Empty cells are still enabled.
C35_Witness ==
  /\ last.op = "make_move" /\ last.prev = " "
  /\ pc = "make_move" /\ game_result = " "
  /\ board[0][0] = "X" /\ buttons[0][0] = "disabled"
  /\ buttons[0][1] = "normal" /\ board[0][1] = " "

\* C36: while game_mode is botvbot no move request is written to the port,
\* and a cycle of the bot loop runs only while game_mode is botvbot.
C36_BotModeSendsNoMoves ==
  [][ /\ (last'.op = "make_move" /\ game_mode' = "botvbot") => last'.sent = <<>>
      /\ Count(last'.calls, "process_bot_move") = 1 => game_mode' = "botvbot"
    ]_vars

====
